---- MODULE Spec2Model ----
(***************************************************************************)
(* gene-patient-api: a FastAPI service that copies patients and their      *)
(* first observation from a remote FHIR server into a relational store     *)
(* (app/main.py, app/services/fhir_service.py, app/models.py,              *)
(* app/database.py) and serves read queries over the stored rows.          *)
(*                                                                         *)
(* The committed tables are sequences of rows in insertion order.  Every   *)
(* request works in its own SQLAlchemy session: objects staged with        *)
(* db.add / setattr are pending until the next db.execute or db.commit     *)
(* flushes them (autoflush), flushed writes stay private to the session's  *)
(* transaction until COMMIT, and a failed flush rolls the transaction back *)
(* and leaves the session unusable until db.rollback().                    *)
(***************************************************************************)
EXTENDS Integers, Sequences, FiniteSets, TLC

VARIABLES db, sess, ncalls, issued, now, last, rc, boot

vars == <<db, sess, ncalls, issued, now, last, rc, boot>>

(***************************************************************************)
(* Bounds of the model.                                                    *)
(***************************************************************************)
\* entries in one remote patient bundle
MaxBundle == 2
\* populate requests that reach the handler in one behaviour
MaxCalls == 2
\* answers the remote server has ready for one client call
MaxAnswers == 4
\* attempts to reach the storage engine whose outcome is fixed in advance
MaxStartup == 6
\* the clock: minutes per tick, and the last minute modelled
ClockStep == 20
MaxTime == 40

(***************************************************************************)
(* Python values.                                                          *)
(***************************************************************************)
NULL == "NULL"

\* the dict {}
EmptyDict == [k \in {} |-> NULL]

\* d.get(k, default)
Get(d, k, default) == IF k \in DOMAIN d THEN d[k] ELSE default

\* bool(d.get(k)) for a list-valued key: absent and [] are both falsy
Truthy(d, k) == k \in DOMAIN d /\ d[k] # <<>>

\* a date text "Y-M-D" as its tokens; a text in another layout has other tokens
DateText(y, m, d) == <<y, "-", m, "-", d>>

IsLeap(y) == (y % 4 = 0 /\ y % 100 # 0) \/ y % 400 = 0

DaysInMonth(y, m) ==
    IF m = 2 THEN (IF IsLeap(y) THEN 29 ELSE 28)
    ELSE IF m \in {4, 6, 9, 11} THEN 30 ELSE 31

\* datetime.strptime(text, "%Y-%m-%d").date(); ok = FALSE is ValueError
strptime(text) ==
    IF /\ Len(text) = 5
       /\ text[2] = "-"
       /\ text[4] = "-"
       /\ text[1] \in 1..9999
       /\ text[3] \in 1..12
       /\ text[5] \in 1..DaysInMonth(text[1], text[3])
    THEN [ok |-> TRUE, date |-> [y |-> text[1], m |-> text[3], d |-> text[5]]]
    ELSE [ok |-> FALSE, date |-> NULL]

(***************************************************************************)
(* Resource parser (app/services/fhir_service.py).                         *)
(***************************************************************************)
Raised(e) == [ok |-> FALSE, err |-> e]

Returned(v) == [ok |-> TRUE, val |-> v]

parse_patient(patient_data) ==
    IF "id" \notin DOMAIN patient_data THEN Raised("KeyError")
    ELSE LET name == Get(patient_data, "name", <<EmptyDict>>)
         IN  IF Len(name) = 0 THEN Raised("IndexError")
             ELSE LET given == Get(name[1], "given", <<"">>)
                  IN  IF Len(given) = 0 THEN Raised("IndexError")
                      ELSE LET bd == strptime(Get(patient_data, "birthDate",
                                                  DateText(1900, 1, 1)))
                           IN  IF ~bd.ok THEN Raised("ValueError")
                               ELSE Returned(
                                   [id |-> patient_data["id"],
                                    first_name |-> given[1],
                                    gender |-> Get(patient_data, "gender", NULL),
                                    birth_date |-> bd.date])

parse_observation(observation_data) ==
    [id |-> Get(observation_data, "id", NULL),
     resource_type |-> Get(observation_data, "resourceType", NULL),
     status |-> Get(observation_data, "status", NULL)]

(***************************************************************************)
(* Remote client (app/services/fhir_service.py).  A server answer is       *)
(* [kind |-> "response", status_code |-> n], or kind "timeout" or          *)
(* "connect" when no response arrives.                                     *)
(***************************************************************************)
\* self.retry_config of FHIRService.__init__
retry_config ==
    [limits |-> 3, backoff_factor |-> 1, status_codes |-> {500, 502, 503, 504}]

\* response.raise_for_status()
raise_for_status(response) == response.status_code >= 400

\* one client.get and the except clauses around it: what the call gives
\* its caller, and the requests it sent
fhir_get(script) ==
    LET response == script[1]
    IN  IF response.kind # "response"
        THEN [attempts |-> 1, waits |-> <<>>, ok |-> FALSE, code |-> 0]
        ELSE IF raise_for_status(response)
             THEN [attempts |-> 1, waits |-> <<>>, ok |-> FALSE,
                   code |-> response.status_code]
             ELSE [attempts |-> 1, waits |-> <<>>, ok |-> TRUE,
                   code |-> response.status_code]

\* FHIRService._get_patients
fhir_get_patients(script) == fhir_get(script)

\* FHIRService.get_observations_by_patient_id
get_observations_by_patient_id(script) == fhir_get(script)

(***************************************************************************)
(* Storage engine.  Rows of the two tables of app/models.py:               *)
(*   patients     [id, first_name, gender, birth_date, postal_code]        *)
(*   observations [id, resource_type, status, patient_id]                  *)
(* A write is [tbl, op, row] with op "insert" or "update".                 *)
(***************************************************************************)
Tables == {"patients", "observations"}

EmptyDb == [patients |-> <<>>, observations |-> <<>>]

Ids(rows) == {rows[k].id : k \in DOMAIN rows}

\* a key column that is NOT NULL but not unique
PrimaryKeyViolation_NotUnique(rows, row) == row.id = NULL

\* Column(String, primary_key=True): NOT NULL and unique
PrimaryKeyViolation(rows, row) == row.id = NULL \/ row.id \in Ids(rows)

\* Column(String, ForeignKey("patients.id")) of Observation.patient_id
ForeignKeyViolation(tables, w) ==
    /\ w.tbl = "observations"
    /\ w.row.patient_id # NULL
    /\ w.row.patient_id \notin Ids(tables.patients)

ApplyWrite(rows, w) ==
    IF w.op = "insert" THEN Append(rows, w.row)
    ELSE [k \in DOMAIN rows |-> IF rows[k].id = w.row.id THEN w.row ELSE rows[k]]

RECURSIVE ApplyLog(_, _)
ApplyLog(tables, log) ==
    IF log = <<>> THEN tables
    ELSE ApplyLog([tables EXCEPT ![Head(log).tbl] = ApplyWrite(@, Head(log))],
                  Tail(log))

\* the rows a statement of a session sees: the committed rows and the
\* session's own flushed writes
View(committed, r) == ApplyLog(committed, r.wlog)

\* the rows a session's transaction holds locked until it ends
Locks(r) == {<<r.wlog[k].tbl, r.wlog[k].row.id>> : k \in DOMAIN r.wlog}

\* result.scalar_one_or_none(): raises MultipleResultsFound on two rows
scalar_one_or_none(rows) ==
    IF Len(rows) > 1 THEN Raised("MultipleResultsFound")
    ELSE IF Len(rows) = 1 THEN Returned([found |-> TRUE, row |-> rows[1]])
    ELSE Returned([found |-> FALSE, row |-> NULL])

WhereId(rows, id) == SelectSeq(rows, LAMBDA row : row.id = id)

(***************************************************************************)
(* Sessions (app/database.py get_db: one AsyncSession per request).  A     *)
(* session record holds the request being served and what it met:          *)
(*   auth, t0     the bearer token presented and the time it arrived       *)
(*   pc, fetch    the postal code and the remote client's patient result   *)
(*   i            the bundle entry the loop is at                          *)
(*   pending      the staged write not yet flushed                         *)
(*   wlog         the writes flushed inside the open transaction           *)
(*   poisoned     a flush failed and db.rollback() was not called yet      *)
(*   commit       "none", "ok" or "raised": how db.commit() ended          *)
(*   refused      the engine refused the COMMIT statement itself           *)
(*   obsNonEmpty  observation fetches that returned a non-empty bundle     *)
(*   obsUsable    those of them whose first entry carries a resource       *)
(*   outcome, detail   the HTTP status and the message of the response     *)
(*   rollbacks, obsFetches, nPatients, nObservations                       *)
(*                counts of db.rollback() calls, observation fetches and   *)
(*                staged patient and observation upserts                   *)
(***************************************************************************)
Sessions == {"s1", "s2"}

NoFetch == Raised("no request sent")

IdleSession ==
    [phase |-> "idle", auth |-> <<>>, t0 |-> 0, pc |-> NULL, fetch |-> NoFetch,
     i |-> 0, wlog |-> <<>>, pending |-> <<>>, poisoned |-> FALSE,
     commit |-> "none", outcome |-> 0, detail |-> "none", rollbacks |-> 0,
     obsFetches |-> 0, nPatients |-> 0, nObservations |-> 0, refused |-> FALSE,
     obsNonEmpty |-> 0, obsUsable |-> 0]

\* patients_data.get("entry", [])
Bundle(r) == IF r.fetch.ok THEN Get(r.fetch.val, "entry", <<>>) ELSE <<>>

\* what flushing the pending write would do: "ok", "error" (a constraint
\* fails) or "locked" (another open transaction wrote the same row)
FlushStatus(r, committed, locks) ==
    IF r.pending = <<>> THEN "ok"
    ELSE LET w == r.pending[1]
             view == View(committed, r)
         IN  IF w.op = "insert" /\ PrimaryKeyViolation(view[w.tbl], w.row)
             THEN "error"
             ELSE IF ForeignKeyViolation(view, w) THEN "error"
             ELSE IF <<w.tbl, w.row.id>> \in locks THEN "locked"
             ELSE "ok"

\* the session after a failed flush: its transaction is rolled back and every
\* later statement raises PendingRollbackError until db.rollback()
FlushFailed(r) == [r EXCEPT !.wlog = <<>>, !.pending = <<>>, !.poisoned = TRUE]

Flushed(r) == [r EXCEPT !.wlog = r.wlog \o r.pending, !.pending = <<>>]

\* the autoflush that opens db.execute and db.commit.  A locked row makes the
\* statement wait (PostgreSQL) or fail with a lock error (SQLite, deadlock
\* victim): lockErr is the engine's choice.
autoflush(r, committed, locks, lockErr) ==
    IF r.poisoned THEN [status |-> "raise", r |-> r]
    ELSE LET st == FlushStatus(r, committed, locks)
         IN  IF st = "ok" THEN [status |-> "ok", r |-> Flushed(r)]
             ELSE IF st = "locked" /\ ~lockErr THEN [status |-> "wait", r |-> r]
             ELSE [status |-> "raise", r |-> FlushFailed(r)]

\* a handler that leaves the transaction as it is
rollback_Skipped(r) == r

\* await db.rollback()
rollback(r) == [r EXCEPT !.wlog = <<>>, !.pending = <<>>, !.poisoned = FALSE,
                         !.rollbacks = @ + 1]

(***************************************************************************)
(* populate_data (app/main.py), one step per awaited stage.  A step gives  *)
(* [status, r]: status "wait" while a statement waits for a row lock.      *)
(***************************************************************************)
\* the response is sent and get_db closes the session
finish(r, status, detail) ==
    [r EXCEPT !.phase = "idle", !.outcome = status, !.detail = detail,
              !.wlog = <<>>, !.pending = <<>>, !.poisoned = FALSE]

\* the inner handler re-raising to the outer one, which answers 500
entry_except_Abort(r) == finish(rollback(r), 500, "Error")

\* except Exception as e: print(...); continue
entry_except(r) == [r EXCEPT !.i = @ + 1, !.phase = "patient"]

\* the end of one loop iteration
next_entry(r) == [r EXCEPT !.i = @ + 1, !.phase = "patient"]

\* a check that only looks for the key
no_patients_MissingKeyOnly(patients_data) == "entry" \notin DOMAIN patients_data

\* if not patients_data.get("entry")
no_patients(patients_data) == ~Truthy(patients_data, "entry")

\* patient_dict["postal_code"] = postal_code
stamp_patient(patient_dict, postal_code) ==
    [id |-> patient_dict.id, first_name |-> patient_dict.first_name,
     gender |-> patient_dict.gender, birth_date |-> patient_dict.birth_date,
     postal_code |-> postal_code]

\* an observation staged without its owner
stamp_observation_Unstamped(observation_dict, patient_id) ==
    [id |-> observation_dict.id, resource_type |-> observation_dict.resource_type,
     status |-> observation_dict.status, patient_id |-> NULL]

\* observation_dict["patient_id"] = patient_dict["id"]
stamp_observation(observation_dict, patient_id) ==
    [id |-> observation_dict.id, resource_type |-> observation_dict.resource_type,
     status |-> observation_dict.status, patient_id |-> patient_id]

\* an update that leaves the stored postal code alone
update_row_KeepPostalCode(existing, d) ==
    IF "postal_code" \in DOMAIN d
    THEN [d EXCEPT !.postal_code = existing.postal_code]
    ELSE d

\* for key, value in d.items(): setattr(existing, key, value)
update_row(existing, d) == d

\* existing row: update it in place; none: db.add a new row
upsert(tbl, existing, d) ==
    IF existing.found
    THEN [tbl |-> tbl, op |-> "update", row |-> update_row(existing.row, d)]
    ELSE [tbl |-> tbl, op |-> "insert", row |-> d]

\* lines 67-77: the top-level fetch and the empty-bundle check.
\* fetch is the remote client's result: Raised(..) or Returned(bundle).
populate_fetch(r, postal_code, fetch) ==
    LET r0 == [r EXCEPT !.pc = postal_code, !.fetch = fetch]
    IN  IF ~fetch.ok THEN finish(rollback(r0), 500, "Error")
        ELSE IF no_patients(fetch.val)
             THEN finish(rollback(r0), 404, "No patients found for postal code")
             ELSE [r0 EXCEPT !.phase = "patient", !.i = 1]

\* lines 81-97: parse, stamp, look up and stage one patient entry
populate_patient(r, committed, locks, lockErr) ==
    LET entry == Bundle(r)[r.i]
        patient_data == Get(entry, "resource", EmptyDict)
        parsed == parse_patient(patient_data)
    IN  IF ~parsed.ok THEN [status |-> "ok", r |-> entry_except(r)]
        ELSE LET patient_dict == stamp_patient(parsed.val, r.pc)
                 ex == autoflush(r, committed, locks, lockErr)
             IN  IF ex.status = "wait" THEN ex
                 ELSE IF ex.status = "raise"
                      THEN [status |-> "ok", r |-> entry_except(ex.r)]
                      ELSE LET existing_patient ==
                                   scalar_one_or_none(
                                       WhereId(View(committed, ex.r).patients,
                                               patient_dict.id))
                           IN  IF ~existing_patient.ok
                               THEN [status |-> "ok", r |-> entry_except(ex.r)]
                               ELSE [status |-> "ok",
                                     r |-> [ex.r EXCEPT
                                         !.pending = <<upsert("patients",
                                                              existing_patient.val,
                                                              patient_dict)>>,
                                         !.nPatients = @ + 1,
                                         !.phase = "obs"]]

\* the last entry of the bundle
first_entry_Last(observations_data) ==
    observations_data["entry"][Len(observations_data["entry"])]

\* observations_data["entry"][0]
first_entry(observations_data) == observations_data["entry"][1]

\* lines 100-118: fetch the patient's observations and stage the first one.
\* fetch is the remote client's result for this patient.
populate_observation(r, committed, locks, lockErr, fetch) ==
    LET patient_id == Bundle(r)[r.i]["resource"]["id"]
        nonEmpty == fetch.ok /\ Truthy(fetch.val, "entry")
        usable == nonEmpty /\ "resource" \in DOMAIN fetch.val["entry"][1]
        r1 == [r EXCEPT !.obsFetches = @ + 1,
                        !.obsNonEmpty = IF nonEmpty THEN @ + 1 ELSE @,
                        !.obsUsable = IF usable THEN @ + 1 ELSE @]
    IN  IF ~fetch.ok THEN [status |-> "ok", r |-> entry_except(r1)]
        ELSE IF ~Truthy(fetch.val, "entry")
             THEN [status |-> "ok", r |-> next_entry(r1)]
             ELSE IF "resource" \notin DOMAIN first_entry(fetch.val)
                  THEN [status |-> "ok", r |-> entry_except(r1)]
                  ELSE LET first_observation == first_entry(fetch.val)["resource"]
                           observation_dict ==
                               stamp_observation(parse_observation(first_observation),
                                                 patient_id)
                           ex == autoflush(r1, committed, locks, lockErr)
                       IN  IF ex.status = "wait" THEN ex
                           ELSE IF ex.status = "raise"
                                THEN [status |-> "ok", r |-> entry_except(ex.r)]
                                ELSE LET existing_observation ==
                                             scalar_one_or_none(
                                                 WhereId(View(committed, ex.r).observations,
                                                         observation_dict.id))
                                     IN  IF ~existing_observation.ok
                                         THEN [status |-> "ok", r |-> entry_except(ex.r)]
                                         ELSE [status |-> "ok",
                                               r |-> next_entry([ex.r EXCEPT
                                                   !.pending = <<upsert("observations",
                                                                        existing_observation.val,
                                                                        observation_dict)>>,
                                                   !.nObservations = @ + 1])]

\* a failed commit whose writes stay in the tables
commit_or_rollback_KeepsWrites(committed, r, commitOk) == View(committed, r)

\* await db.commit(), and on SQLAlchemyError await db.rollback(): the
\* committed tables afterwards
commit_or_rollback(committed, r, commitOk) ==
    IF commitOk THEN View(committed, r) ELSE committed

\* lines 124-147: the commit and the error handlers around it.
\* commitOk is the engine's answer to COMMIT.
populate_commit(r, committed, locks, lockErr, commitOk) ==
    LET ex == autoflush(r, committed, locks, lockErr)
        raised(q) == finish(rollback(rollback([q EXCEPT !.commit = "raised"])), 500,
                            "Database error while saving data")
    IN  IF ex.status = "wait" THEN [status |-> "wait", r |-> r, db |-> committed]
        ELSE IF ex.status = "raise"
             THEN [status |-> "ok", db |-> committed, r |-> raised(ex.r)]
             ELSE IF ~commitOk
                  THEN [status |-> "ok",
                        db |-> commit_or_rollback(committed, ex.r, FALSE),
                        r |-> raised([ex.r EXCEPT !.refused = TRUE])]
                  ELSE [status |-> "ok",
                        db |-> commit_or_rollback(committed, ex.r, TRUE),
                        r |-> finish([ex.r EXCEPT !.commit = "ok"], 200,
                                     "Data populated successfully")]

(***************************************************************************)
(* Query endpoints (app/main.py).  Each returns [status, body].            *)
(***************************************************************************)
\* GET /patients/{search_term}
get_patient(rows, search_term) ==
    LET patient == scalar_one_or_none(
                       SelectSeq(rows, LAMBDA row : \/ row.id = search_term
                                                    \/ row.first_name = search_term))
    IN  IF ~patient.ok THEN [status |-> 500, body |-> <<>>]
        ELSE IF ~patient.val.found THEN [status |-> 404, body |-> <<>>]
        ELSE [status |-> 200, body |-> <<patient.val.row>>]

\* the query without its check for an empty result
get_patient_observations_EmptyList(rows, patient_id) ==
    [status |-> 200,
     body |-> SelectSeq(rows, LAMBDA row : row.patient_id = patient_id)]

\* GET /patients/{patient_id}/observations
get_patient_observations(rows, patient_id) ==
    LET observations == SelectSeq(rows, LAMBDA row : row.patient_id = patient_id)
    IN  IF observations = <<>> THEN [status |-> 404, body |-> <<>>]
        ELSE [status |-> 200, body |-> observations]

\* GET /patients/postal_code/{postal_code}
get_patients_by_postal_code(rows, postal_code) ==
    LET matching == SelectSeq(rows, LAMBDA row : row.postal_code = postal_code)
        patient_ids == [k \in DOMAIN matching |-> matching[k].id]
    IN  IF patient_ids = <<>> THEN [status |-> 404, body |-> <<>>]
        ELSE [status |-> 200, body |-> patient_ids]

(***************************************************************************)
(* Access gate (app/main.py login; app/auth.py is not part of the sources  *)
(* and is modelled from the specification).                                *)
(***************************************************************************)
ACCESS_TOKEN_EXPIRE_MINUTES == 30

ConfiguredUser == [username |-> "admin", password |-> "secret"]

\* authenticate_user(username, password): the user, or nothing
authenticate_user(username, password) ==
    IF username = ConfiguredUser.username /\ password = ConfiguredUser.password
    THEN <<[username |-> username]>>
    ELSE <<>>

\* create_access_token(data, expires_delta): a token signed by the service
create_access_token(data, expires_delta, clock) ==
    [sub |-> data.sub, exp |-> clock + expires_delta, signed |-> TRUE]

\* get_current_user(token): the token is the service's own and not expired
\* (auth is <<>> without a bearer token, <<token>> with one)
get_current_user(auth, clock) ==
    IF auth # <<>> /\ auth[1].signed /\ clock <= auth[1].exp
    THEN [status |-> 200, sub |-> auth[1].sub]
    ELSE [status |-> 401, sub |-> NULL]

\* a login that issues the token without looking at the user it found
login_NoCredentialCheck(username, password, clock) ==
    [status |-> 200,
     body |-> <<create_access_token([sub |-> username],
                                    ACCESS_TOKEN_EXPIRE_MINUTES, clock)>>]

\* POST /token
login(username, password, clock) ==
    LET user == authenticate_user(username, password)
    IN  IF user = <<>> THEN [status |-> 401, body |-> <<>>]
        ELSE [status |-> 200,
              body |-> <<create_access_token([sub |-> user[1].username],
                                             ACCESS_TOKEN_EXPIRE_MINUTES, clock)>>]

(***************************************************************************)
(* The remote server's answers and the clients' requests.                  *)
(***************************************************************************)
BoundedSeq(S, n) == UNION {[1..k -> S] : k \in 0..n}

PostalCodes == {"z1", "z2"}

\* the address the remote record itself carries: never a requested code
RemoteAddress == <<[postalCode |-> "z9"]>>

P1Ann == [id |-> "p1", name |-> <<[given |-> <<"Ann">>]>>, gender |-> "female",
          birthDate |-> DateText(1990, 1, 1), address |-> RemoteAddress]

P1Bob == [id |-> "p1", name |-> <<[given |-> <<"p2">>]>>, gender |-> "male",
          birthDate |-> DateText(2000, 2, 29)]

P2Min == [id |-> "p2"]

P2Ann == [id |-> "p2", name |-> <<[given |-> <<"Ann">>, family |-> "Lee"]>>,
          birthDate |-> DateText(1990, 1, 1), address |-> RemoteAddress]

P2BadDate == [id |-> "p2", gender |-> "female",
              birthDate |-> <<1, "/", 2, "/", 1990>>]

\* bundle entries: five with a resource, one without
PatientEntries ==
    {[resource |-> P1Ann], [resource |-> P1Bob], [resource |-> P2Min],
     [resource |-> P2Ann], [resource |-> P2BadDate], [fullUrl |-> "urn:x"]}

O1Final == [id |-> "o1", resourceType |-> "Observation", status |-> "final"]

O1Amended == [id |-> "o1", resourceType |-> "Observation", status |-> "amended"]

O2 == [id |-> "o2", status |-> "final"]

ONoId == [resourceType |-> "Observation", status |-> "final"]

\* what get_patients_by_postal_code can give populate_data
PatientFetches(entries) ==
    {Raised("Exception"), Returned(EmptyDict)}
    \cup {Returned([entry |-> b]) : b \in BoundedSeq(entries, MaxBundle)}

\* what get_observations_by_patient_id can give populate_data
ObservationFetches ==
    {Raised("Exception"), Returned(EmptyDict),
     Returned([entry |-> <<[fullUrl |-> "urn:x"]>>]),
     Returned([entry |-> <<[resource |-> O1Final]>>]),
     Returned([entry |-> <<[resource |-> O1Amended], [resource |-> O2]>>]),
     Returned([entry |-> <<[resource |-> ONoId]>>])}

ForgedToken == [sub |-> "admin", exp |-> 1000000, signed |-> FALSE]

Credentials ==
    {ConfiguredUser, [username |-> "admin", password |-> "guess"],
     [username |-> "root", password |-> "secret"]}

SearchTerms == {"p1", "p2", "Ann", "", "zed"}

\* last is the response to the latest login or query request, NoResponse
\* once a populate request has arrived after it
NoResponse == [op |-> "none", arg |-> NULL, status |-> 0, body |-> <<>>]

\* rc: one call of the remote client.  script is what the server answers to
\* the first, second, ... request of the call; attempts counts the requests
\* sent, waits the sleeps between them.
NoRemoteCall ==
    [op |-> "none", script |-> <<>>, attempts |-> 0, waits |-> <<>>,
     ok |-> FALSE, code |-> 0]

\* boot: the start of the service.  script[k] says whether the storage
\* engine is ready at the k-th attempt to create the tables; attempts counts
\* the attempts made, waits the sleeps between them; phase is "starting",
\* "serving" or "failed" (the process exits without serving).
Started == [phase |-> "serving", script |-> <<TRUE>>, attempts |-> 1, waits |-> <<>>]

(***************************************************************************)
(* Actions.                                                                *)
(***************************************************************************)
\* a read that also sees what open transactions have flushed
Snapshot_Dirty(committed, open) ==
    ApplyLog(committed, open["s1"].wlog \o open["s2"].wlog)

\* the tables as a query's own session reads them: committed rows only,
\* whatever the open transactions of other sessions have flushed
Snapshot(committed, open) == committed

OtherLocks(s) == UNION {Locks(sess[t]) : t \in Sessions \ {s}}

\* POST /token
Login(creds) ==
    \E c \in creds :
        LET res == login(c.username, c.password, now)
        IN  /\ last' = [op |-> "login", arg |-> c, status |-> res.status,
                        body |-> res.body]
            /\ issued' = issued \cup {res.body[k] : k \in DOMAIN res.body}
            /\ UNCHANGED <<db, sess, ncalls, now, rc, boot>>

\* POST /populate/{postal_code}: the token check, then lines 67-77
PopulateBegin(s, pcs, fetches) ==
    /\ sess[s].phase = "idle"
    /\ ncalls < MaxCalls
    /\ \E auth \in {<<>>, <<ForgedToken>>} \cup {<<t>> : t \in issued},
          postal_code \in pcs, fetch \in fetches :
          LET request == [IdleSession EXCEPT !.auth = auth, !.t0 = now]
          IN  IF get_current_user(auth, now).status = 401
              THEN /\ sess' = [sess EXCEPT ![s] = finish(request, 401, "Not authenticated")]
                   /\ UNCHANGED ncalls
              ELSE /\ sess' = [sess EXCEPT ![s] =
                                   populate_fetch(request, postal_code, fetch)]
                   /\ ncalls' = ncalls + 1
    /\ last' = NoResponse
    /\ UNCHANGED <<db, issued, now, rc, boot>>

PopulatePatient(s) ==
    /\ sess[s].phase = "patient"
    /\ sess[s].i <= Len(Bundle(sess[s]))
    /\ \E lockErr \in BOOLEAN :
          LET res == populate_patient(sess[s], db, OtherLocks(s), lockErr)
          IN  /\ res.status = "ok"
              /\ sess' = [sess EXCEPT ![s] = res.r]
    /\ UNCHANGED <<db, ncalls, issued, now, last, rc, boot>>

PopulateObservation(s, fetches) ==
    /\ sess[s].phase = "obs"
    /\ \E lockErr \in BOOLEAN, fetch \in fetches :
          LET res == populate_observation(sess[s], db, OtherLocks(s), lockErr, fetch)
          IN  /\ res.status = "ok"
              /\ sess' = [sess EXCEPT ![s] = res.r]
    /\ UNCHANGED <<db, ncalls, issued, now, last, rc, boot>>

PopulateCommit(s) ==
    /\ sess[s].phase = "patient"
    /\ sess[s].i > Len(Bundle(sess[s]))
    /\ \E lockErr \in BOOLEAN, commitOk \in BOOLEAN :
          LET res == populate_commit(sess[s], db, OtherLocks(s), lockErr, commitOk)
          IN  /\ res.status = "ok"
              /\ sess' = [sess EXCEPT ![s] = res.r]
              /\ db' = res.db
    /\ UNCHANGED <<ncalls, issued, now, last, rc, boot>>

QueryPatient(terms) ==
    \E search_term \in terms :
        LET res == get_patient(Snapshot(db, sess).patients, search_term)
        IN  /\ last' = [op |-> "get_patient", arg |-> search_term,
                        status |-> res.status, body |-> res.body]
            /\ UNCHANGED <<db, sess, ncalls, issued, now, rc, boot>>

QueryObservations(ids) ==
    \E patient_id \in ids :
        LET res == get_patient_observations(Snapshot(db, sess).observations, patient_id)
        IN  /\ last' = [op |-> "get_patient_observations", arg |-> patient_id,
                        status |-> res.status, body |-> res.body]
            /\ UNCHANGED <<db, sess, ncalls, issued, now, rc, boot>>

QueryPostalCode(pcs) ==
    \E postal_code \in pcs :
        LET res == get_patients_by_postal_code(Snapshot(db, sess).patients, postal_code)
        IN  /\ last' = [op |-> "get_patients_by_postal_code", arg |-> postal_code,
                        status |-> res.status, body |-> res.body]
            /\ UNCHANGED <<db, sess, ncalls, issued, now, rc, boot>>

(***************************************************************************)
(* Spec: populate calls served one at a time, every kind of bundle entry   *)
(* and of observation answer.  The client logs in once, SpecAuth has the   *)
(* other logins.                                                           *)
(***************************************************************************)
Init ==
    /\ db = EmptyDb
    /\ sess = [s \in Sessions |-> IdleSession]
    /\ ncalls = 0
    /\ issued = {}
    /\ now = 0
    /\ last = NoResponse
    /\ rc = NoRemoteCall
    /\ boot = Started

Next ==
    \/ issued = {} /\ Login({ConfiguredUser})
    \/ PopulateBegin("s1", PostalCodes, PatientFetches(PatientEntries))
    \/ PopulatePatient("s1")
    \/ PopulateObservation("s1", ObservationFetches)
    \/ PopulateCommit("s1")

Spec == Init /\ [][Next]_vars

(***************************************************************************)
(* SpecQuery: the three query endpoints over the rows populate calls       *)
(* stored, asked between the populate calls.                               *)
(***************************************************************************)
QueryEntries == {[resource |-> P1Ann], [resource |-> P1Bob], [resource |-> P2Ann]}

QueryObservationFetches ==
    {Returned(EmptyDict), Returned([entry |-> <<[resource |-> O1Final]>>]),
     Returned([entry |-> <<[resource |-> O2]>>])}

NextQuery ==
    \/ issued = {} /\ Login({ConfiguredUser})
    \/ PopulateBegin("s1", PostalCodes, PatientFetches(QueryEntries))
    \/ PopulatePatient("s1")
    \/ PopulateObservation("s1", QueryObservationFetches)
    \/ PopulateCommit("s1")
    \/ sess["s1"].phase = "idle" /\ QueryPatient(SearchTerms)
    \/ sess["s1"].phase = "idle" /\ QueryObservations({"p1", "p2", "p3"})
    \/ sess["s1"].phase = "idle" /\ QueryPostalCode(PostalCodes \cup {"z9"})

SpecQuery == Init /\ [][NextQuery]_vars

(***************************************************************************)
(* SpecConc: two populate requests in flight at once, each in its own      *)
(* session; a second session is opened only while the first is busy.       *)
(***************************************************************************)
ConcEntries == {[resource |-> P1Ann], [resource |-> P1Bob], [resource |-> P2Min]}

ConcObservationFetches ==
    {Returned(EmptyDict), Returned([entry |-> <<[resource |-> O1Final]>>])}

NextConc ==
    \/ issued = {} /\ Login({ConfiguredUser})
    \/ PopulateBegin("s1", {"z1"}, PatientFetches(ConcEntries))
    \/ /\ sess["s1"].phase # "idle"
       /\ PopulateBegin("s2", {"z2"}, PatientFetches(ConcEntries))
    \/ \E s \in Sessions : PopulatePatient(s)
    \/ \E s \in Sessions : PopulateObservation(s, ConcObservationFetches)
    \/ \E s \in Sessions : PopulateCommit(s)

SpecConc == Init /\ [][NextConc]_vars

(***************************************************************************)
(* SpecIso: queries arriving at any moment of one or two populate requests *)
(* in flight.                                                              *)
(***************************************************************************)
IsoEntries == {[resource |-> P1Ann], [resource |-> P2Min]}

NextIso ==
    \/ issued = {} /\ Login({ConfiguredUser})
    \/ PopulateBegin("s1", {"z1"}, PatientFetches(IsoEntries))
    \/ /\ sess["s1"].phase # "idle"
       /\ PopulateBegin("s2", {"z2"}, PatientFetches(IsoEntries))
    \/ \E s \in Sessions : PopulatePatient(s)
    \/ \E s \in Sessions : PopulateObservation(s, ConcObservationFetches)
    \/ \E s \in Sessions : PopulateCommit(s)
    \/ QueryPatient({"p1"})
    \/ QueryObservations({"p1"})
    \/ QueryPostalCode({"z1"})

SpecIso == Init /\ [][NextIso]_vars

(***************************************************************************)
(* SpecAuth: logins with right and wrong credentials, a clock, and         *)
(* populate requests carrying any token a client can hold.                 *)
(***************************************************************************)
Tick ==
    /\ now + ClockStep <= MaxTime
    /\ now' = now + ClockStep
    /\ UNCHANGED <<db, sess, ncalls, issued, last, rc, boot>>

AuthEntries == {[resource |-> P2Min]}

NextAuth ==
    \/ Login(Credentials)
    \/ Tick
    \/ PopulateBegin("s1", {"z1"}, PatientFetches(AuthEntries))
    \/ PopulatePatient("s1")
    \/ PopulateObservation("s1", {Returned(EmptyDict)})
    \/ PopulateCommit("s1")

SpecAuth == Init /\ [][NextAuth]_vars

(***************************************************************************)
(* SpecRemote: one call of the remote client against every short script of *)
(* server answers.                                                         *)
(***************************************************************************)
Answers ==
    {[kind |-> "response", status_code |-> c] : c \in {200, 404, 500, 502, 503, 504}}
    \cup {[kind |-> "timeout", status_code |-> 0],
          [kind |-> "connect", status_code |-> 0]}

InitRemote ==
    /\ db = EmptyDb
    /\ sess = [s \in Sessions |-> IdleSession]
    /\ ncalls = 0
    /\ issued = {}
    /\ now = 0
    /\ last = NoResponse
    /\ \E script \in [1..MaxAnswers -> Answers] :
          rc = [NoRemoteCall EXCEPT !.script = script]
    /\ boot = Started

RemoteCall(op, res) ==
    /\ rc.op = "none"
    /\ rc' = [rc EXCEPT !.op = op, !.attempts = res.attempts, !.waits = res.waits,
                        !.ok = res.ok, !.code = res.code]
    /\ UNCHANGED <<db, sess, ncalls, issued, now, last, boot>>

GetPatients == RemoteCall("patients", fhir_get_patients(rc.script))

GetObservations == RemoteCall("observations", get_observations_by_patient_id(rc.script))

NextRemote == GetPatients \/ GetObservations

SpecRemote == InitRemote /\ [][NextRemote]_vars

(***************************************************************************)
(* Claims.                                                                 *)
(***************************************************************************)
Finished(r) == r.phase = "idle" /\ r.outcome \in {200, 404, 500}

EntryIds(bundle) ==
    {bundle[k]["resource"]["id"] :
        k \in {j \in DOMAIN bundle : parse_patient(Get(bundle[j], "resource", EmptyDict)).ok}}

\* C1: in every stored state, after any sequence or interleaving of populate
\* calls, no two Patient rows and no two Observation rows share an
\* identifier: an identifier that is ingested again (by a later call, by a
\* concurrent call, or twice in one bundle) never adds a second row.
C1_OneRowPerIdentifier ==
    \A tbl \in Tables :
        \A j, k \in DOMAIN db[tbl] : db[tbl][j].id = db[tbl][k].id => j = k

\* two overlapping calls both succeeded, both ingested p1 (one of them twice
\* in its bundle), and one p1 row is stored
C1_Witness ==
    /\ \A s \in Sessions : Finished(sess[s]) /\ sess[s].outcome = 200
                           /\ "p1" \in EntryIds(Bundle(sess[s]))
    /\ \E s \in Sessions : sess[s].nPatients = 2 /\ EntryIds(Bundle(sess[s])) = {"p1"}
    /\ Len(db.patients) = 1
    /\ db.patients[1].id = "p1"

Malformed(entry) == ~parse_patient(Get(entry, "resource", EmptyDict)).ok

ValidEntries(bundle) == {k \in DOMAIN bundle : ~Malformed(bundle[k])}

\* the step of session s that ends its request with a successful commit
CommitsOk(s) ==
    /\ sess[s].phase = "patient"
    /\ Finished(sess'[s])
    /\ sess'[s].commit = "ok"

\* C2: a populate call whose patient bundle has no entries (the "entry" key
\* missing, or an empty list) answers 404, has fetched no observations and
\* staged nothing, and the step that answers leaves both tables as they were.
C2_EmptyBundleNotFound ==
    /\ [](\A s \in Sessions :
            (Finished(sess[s]) /\ sess[s].fetch.ok /\ Bundle(sess[s]) = <<>>)
            => /\ sess[s].outcome = 404
               /\ sess[s].obsFetches = 0
               /\ sess[s].nPatients = 0 /\ sess[s].nObservations = 0
               /\ sess[s].commit = "none")
    /\ [][\A s \in Sessions :
            (sess'[s] # sess[s] /\ Finished(sess'[s]) /\ sess'[s].fetch.ok
             /\ Bundle(sess'[s]) = <<>>)
            => db' = db]_vars

\* a second call met {"entry": []} with rows already stored
C2_Witness ==
    /\ Finished(sess["s1"])
    /\ sess["s1"].fetch = Returned([entry |-> <<>>])
    /\ sess["s1"].outcome = 404
    /\ ncalls = 2
    /\ Len(db.patients) = 2 /\ Len(db.observations) = 1

\* C3: a populate call whose commit fails answers 500 and persists nothing:
\* the tables change in no step but the successful commit of a call, so
\* after the failed call they are what they were before it.
C3_CommitFailurePersistsNothing ==
    /\ [](\A s \in Sessions :
            (Finished(sess[s]) /\ sess[s].commit = "raised")
            => sess[s].outcome = 500 /\ sess[s].rollbacks >= 1)
    /\ [][db' # db => \E s \in Sessions : CommitsOk(s) /\ sess'[s].outcome = 200]_vars

\* a second call staged two patients, no observation, and its commit failed
C3_Witness ==
    /\ Finished(sess["s1"])
    /\ sess["s1"].commit = "raised"
    /\ sess["s1"].outcome = 500
    /\ sess["s1"].nPatients = 2 /\ sess["s1"].nObservations = 0
    /\ ncalls = 2
    /\ Len(db.patients) = 1

\* C4: a populate call over a bundle that mixes malformed patient entries
\* (no identifier, or a birth date not in YYYY-MM-DD) with valid ones, in
\* any order, answers 200 unless its commit raises; when it answers 200
\* every valid entry was staged and has its row stored, and its commit
\* added rows for the valid entries' identifiers only.
C4_MalformedEntriesAreSkipped ==
    /\ [](\A s \in Sessions :
            LET r == sess[s]
                bundle == Bundle(r)
            IN  (Finished(r) /\ ValidEntries(bundle) # {}
                 /\ ValidEntries(bundle) # DOMAIN bundle)
                => /\ r.outcome = 200 \/ r.commit = "raised"
                   /\ r.outcome = 200
                      => /\ r.nPatients = Cardinality(ValidEntries(bundle))
                         /\ EntryIds(bundle) \subseteq Ids(db.patients))
    /\ [][\A s \in Sessions :
            CommitsOk(s)
            => Ids(db'.patients) = Ids(db.patients) \cup EntryIds(Bundle(sess[s]))]_vars

\* a call over <<no resource, valid p1>> answered 200 and stored p1 alone
C4_Witness ==
    /\ Finished(sess["s1"])
    /\ sess["s1"].outcome = 200
    /\ Len(Bundle(sess["s1"])) = 2
    /\ "resource" \notin DOMAIN Bundle(sess["s1"])[1]
    /\ Bundle(sess["s1"])[2] = [resource |-> P1Ann]
    /\ Ids(db.patients) = {"p1"}

\* the last valid entry of the bundle with the identifier of entry k
LastWithId(bundle, k) ==
    CHOOSE j \in ValidEntries(bundle) :
        /\ bundle[j]["resource"]["id"] = bundle[k]["resource"]["id"]
        /\ \A m \in ValidEntries(bundle) :
              bundle[m]["resource"]["id"] = bundle[k]["resource"]["id"] => m <= j

\* C5: after a populate call for postal code pc answered 200, for every
\* entry that parsed, the stored Patient row with its identifier has the
\* first name, gender and birth date parsed from the last entry with that
\* identifier, and postal_code = pc, whether the row was inserted or was
\* there before; the address in the remote record is not used.
C5_StoredPatientIsParsedAndStamped ==
    \A s \in Sessions :
        LET r == sess[s]
            bundle == Bundle(r)
        IN  (Finished(r) /\ r.outcome = 200)
            => \A k \in ValidEntries(bundle) :
                  LET parsed == parse_patient(bundle[LastWithId(bundle, k)]["resource"]).val
                      rows == WhereId(db.patients, parsed.id)
                  IN  /\ Len(rows) = 1
                      /\ rows[1].first_name = parsed.first_name
                      /\ rows[1].gender = parsed.gender
                      /\ rows[1].birth_date = parsed.birth_date
                      /\ rows[1].postal_code = r.pc
                      /\ rows[1].postal_code \in PostalCodes

\* the second call, for z2, overwrote the p1 row the first call stored for z1
C5_Witness ==
    /\ Finished(sess["s1"])
    /\ sess["s1"].outcome = 200
    /\ sess["s1"].pc = "z2"
    /\ Bundle(sess["s1"]) = <<[resource |-> P1Bob]>>
    /\ ncalls = 2
    /\ Len(db.patients) = 2
    /\ db.patients[1] = [id |-> "p1", first_name |-> "p2", gender |-> "male",
                         birth_date |-> [y |-> 2000, m |-> 2, d |-> 29],
                         postal_code |-> "z2"]
    /\ db.patients[2].postal_code = "z1"

\* C7: a populate call that reached the handler ends with 500 when the
\* patient fetch raised, else 404 when the bundle has no entries, else 500
\* when the commit raised, else 200 "Data populated successfully" (also
\* when every entry failed and nothing was staged); db.rollback() ran
\* before every 404 and 500.
C7_PopulateOutcome ==
    \A s \in Sessions :
        LET r == sess[s]
        IN  Finished(r)
            => /\ r.outcome = IF ~r.fetch.ok THEN 500
                              ELSE IF Bundle(r) = <<>> THEN 404
                              ELSE IF r.commit = "raised" THEN 500
                              ELSE 200
               /\ r.outcome = 200
                  => r.detail = "Data populated successfully" /\ r.commit = "ok"
               /\ r.outcome \in {404, 500} => r.rollbacks >= 1

\* both entries of the bundle failed, nothing was staged, the call answered 200
C7_Witness ==
    /\ Finished(sess["s1"])
    /\ sess["s1"].outcome = 200
    /\ Len(Bundle(sess["s1"])) = 2
    /\ ValidEntries(Bundle(sess["s1"])) = {}
    /\ sess["s1"].nPatients = 0
    /\ db = EmptyDb

Matches(rows, P(_)) == {k \in DOMAIN rows : P(rows[k])}

\* C6: get_patient(t) answers 404 exactly when no stored patient has
\* identifier or first name t, and with one or more matches (several
\* patients of one name, an identifier that is another patient's name) it
\* answers 200 with one matching patient.
C6_GetPatientFirstHit ==
    last.op = "get_patient"
    => LET m == Matches(db.patients,
                        LAMBDA row : row.id = last.arg \/ row.first_name = last.arg)
       IN  /\ last.status = 404 <=> m = {}
           /\ m # {} => /\ last.status = 200
                        /\ Len(last.body) = 1
                        /\ \E k \in m : last.body[1] = db.patients[k]

\* a token issued by a login and not expired at minute t
ValidAt(auth, t) == auth # <<>> /\ auth[1] \in issued /\ t <= auth[1].exp

Retryable(answer) ==
    answer.kind = "response" /\ answer.status_code \in retry_config.status_codes

\* the request whose answer the retry policy returns: the first that is not
\* a retryable failure, else the last of 1 + limits
PolicyLast(script) ==
    LET n == IF Len(script) < retry_config.limits + 1 THEN Len(script)
             ELSE retry_config.limits + 1
    IN  IF \E k \in 1..n : ~Retryable(script[k])
        THEN CHOOSE k \in 1..n : /\ ~Retryable(script[k])
                                 /\ \A j \in 1..(k - 1) : Retryable(script[j])
        ELSE n

\* C9: a remote client GET answered 500, 502, 503 or 504 is sent again, up
\* to 3 more times after waits of 1, 2 and 4 seconds; the call returns the
\* answer of a retry that succeeded, fails only once the retries are used
\* up, and fails after one request on a 4xx answer.
C9_RetriesOnServerErrors ==
    rc.op # "none"
    => LET k == PolicyLast(rc.script)
           final == rc.script[k]
       IN  /\ rc.attempts = k
           /\ rc.waits = [j \in 1..(k - 1) |-> retry_config.backoff_factor * 2 ^ (j - 1)]
           /\ rc.ok = (final.kind = "response" /\ final.status_code < 400)
           /\ (~rc.ok /\ final.kind = "response") => rc.code = final.status_code

\* C10: get_patient_observations(pid) and get_patients_by_postal_code(pc)
\* answer 404 exactly when no stored row matches, and otherwise 200 with
\* every matching row (its identifier, for the postal code query) and never
\* an empty list; a query changes neither the tables nor a session.
C10_EmptyResultIsNotFound ==
    /\ [](last.op = "get_patient_observations"
          => LET m == Matches(db.observations, LAMBDA row : row.patient_id = last.arg)
             IN  /\ last.status = 404 <=> m = {}
                 /\ last.status \in {200, 404}
                 /\ last.status = 200
                    => /\ Len(last.body) = Cardinality(m)
                       /\ \A k \in m : \E j \in DOMAIN last.body :
                             last.body[j] = db.observations[k])
    /\ [](last.op = "get_patients_by_postal_code"
          => LET m == Matches(db.patients, LAMBDA row : row.postal_code = last.arg)
             IN  /\ last.status = 404 <=> m = {}
                 /\ last.status \in {200, 404}
                 /\ last.status = 200
                    => /\ Len(last.body) = Cardinality(m)
                       /\ \A k \in m : \E j \in DOMAIN last.body :
                             last.body[j] = db.patients[k].id)
    /\ [][(last' # last /\ last'.op \in {"get_patient_observations",
                                         "get_patients_by_postal_code"})
          => (db' = db /\ sess' = sess)]_vars

\* p1 has two stored observations and the query for p1 returned both, while
\* the patients table holds a second patient under another postal code
C10_Witness ==
    /\ last.op = "get_patient_observations"
    /\ last.arg = "p1"
    /\ last.status = 200
    /\ Len(last.body) = 2
    /\ Len(db.patients) = 2
    /\ db.patients[1].postal_code # db.patients[2].postal_code

(***************************************************************************)
(* SpecParse: the two parsers of FHIRService applied to raw resources with *)
(* each field absent, present and well formed, or present and malformed.   *)
(* last.arg is the raw resource, last.body the one result of the parser.   *)
(***************************************************************************)
Optional(k, vals) == {EmptyDict} \cup {[x \in {k} |-> v] : v \in vals}

Merge(f, g) ==
    [x \in DOMAIN f \cup DOMAIN g |-> IF x \in DOMAIN f THEN f[x] ELSE g[x]]

RawNames ==
    {<<>>, <<EmptyDict>>, <<[given |-> <<>>]>>, <<[given |-> <<"Ann">>]>>,
     <<[given |-> <<"Ann", "Bo">>, family |-> "Lee"], [given |-> <<"Zed">>]>>}

RawDates ==
    {DateText(1990, 1, 1), DateText(1990, 2, 30), <<1, "/", 2, "/", 1990>>}

RawPatients ==
    {Merge(Merge(a, b), Merge(c, d)) :
        a \in Optional("id", {"p1"}), b \in Optional("name", RawNames),
        c \in Optional("gender", {"female"}), d \in Optional("birthDate", RawDates)}

RawObservations ==
    {Merge(a, Merge(b, c)) :
        a \in Optional("id", {"o1"}),
        b \in Optional("resourceType", {"Observation"}),
        c \in Optional("status", {"final"})}

InitParse ==
    /\ db = EmptyDb
    /\ sess = [s \in Sessions |-> IdleSession]
    /\ ncalls = 0
    /\ issued = {}
    /\ now = 0
    /\ last \in {[op |-> "resource", arg |-> d, status |-> 0, body |-> <<>>] :
                    d \in RawPatients \cup RawObservations}
    /\ rc = NoRemoteCall
    /\ boot = Started

ParsePatient ==
    /\ last.op = "resource"
    /\ last' = [op |-> "parse_patient", arg |-> last.arg, status |-> 0,
                body |-> <<parse_patient(last.arg)>>]
    /\ UNCHANGED <<db, sess, ncalls, issued, now, rc, boot>>

ParseObservation ==
    /\ last.op = "resource"
    /\ last' = [op |-> "parse_observation", arg |-> last.arg, status |-> 0,
                body |-> <<Returned(parse_observation(last.arg))>>]
    /\ UNCHANGED <<db, sess, ncalls, issued, now, rc, boot>>

NextParse == ParsePatient \/ ParseObservation

SpecParse == InitParse /\ [][NextParse]_vars

\* the given name the defaults give a raw patient: the first given name of
\* its first name entry, the empty string when there is none
DefaultedGiven(d) ==
    IF /\ "name" \in DOMAIN d
       /\ d["name"] # <<>>
       /\ "given" \in DOMAIN d["name"][1]
       /\ d["name"][1]["given"] # <<>>
    THEN d["name"][1]["given"][1]
    ELSE ""

\* C11: parse_patient fails exactly when the identifier is absent or the
\* birth date is present and not a YYYY-MM-DD date; otherwise it returns the
\* identifier, the given name ("" with no name field, a name entry without
\* given, or an empty name or given list), the gender (null when missing)
\* and the birth date (1900-01-01 when missing).  parse_observation never
\* fails and returns null for every missing field.
C11_ParserDefaults ==
    /\ last.op = "parse_patient"
       => LET d == last.arg
              res == last.body[1]
              malformed == \/ "id" \notin DOMAIN d
                           \/ /\ "birthDate" \in DOMAIN d
                              /\ ~strptime(d["birthDate"]).ok
          IN  /\ ~res.ok <=> malformed
              /\ res.ok
                 => /\ res.val.id = d["id"]
                    /\ res.val.first_name = DefaultedGiven(d)
                    /\ res.val.gender = Get(d, "gender", NULL)
                    /\ res.val.birth_date =
                          strptime(Get(d, "birthDate", DateText(1900, 1, 1))).date
    /\ last.op = "parse_observation"
       => /\ last.body[1].ok
          /\ \A pair \in {<<"id", "id">>, <<"resource_type", "resourceType">>,
                          <<"status", "status">>} :
                last.body[1].val[pair[1]] = Get(last.arg, pair[2], NULL)

\* C12: a failure in one entry's observation step (the observation fetch
\* raises, the first observation entry has no resource, the observation has
\* no identifier and cannot be stored) stays with that entry: unless the
\* patient fetch failed, the bundle was empty or the engine refused the
\* COMMIT, the call answers 200, every valid patient entry was staged, and
\* every valid entry's patient row is stored.
C12_ObservationFailureIsContained ==
    \A s \in Sessions :
        LET r == sess[s]
            bundle == Bundle(r)
        IN  (Finished(r) /\ r.fetch.ok /\ bundle # <<>> /\ ~r.refused)
            => /\ r.outcome = 200
               /\ r.nPatients = Cardinality(ValidEntries(bundle))
               /\ EntryIds(bundle) \subseteq Ids(db.patients)

\* C13: the writes of a populate call become visible together at its
\* commit.  The committed tables change only in the step that ends a call
\* with 200, and then by all the writes the call staged; every query, asked
\* at any moment of populate calls in flight, answers from the committed
\* tables alone, so it returns no row of a call that has not committed or
\* that was rolled back.
C13_WritesVisibleAtCommit ==
    /\ [][db' # db
          => \E s \in Sessions :
                /\ CommitsOk(s)
                /\ sess'[s].outcome = 200
                /\ db' = ApplyLog(db, sess[s].wlog \o sess[s].pending)]_vars
    /\ [][last' # last
          => /\ last'.op = "get_patient"
                => /\ last'.status = get_patient(db.patients, last'.arg).status
                   /\ last'.body = get_patient(db.patients, last'.arg).body
             /\ last'.op = "get_patient_observations"
                => /\ last'.status = get_patient_observations(db.observations,
                                                              last'.arg).status
                   /\ last'.body = get_patient_observations(db.observations,
                                                            last'.arg).body
             /\ last'.op = "get_patients_by_postal_code"
                => /\ last'.status = get_patients_by_postal_code(db.patients,
                                                                 last'.arg).status
                   /\ last'.body = get_patients_by_postal_code(db.patients,
                                                               last'.arg).body]_vars
    /\ [](\A s \in Sessions :
            (Finished(sess[s]) /\ sess[s].outcome # 200) => sess[s].wlog = <<>>)

\* a call has flushed its insert of p1 for z1 and staged p1's observation,
\* and a query for z1 asked at that moment found no patient
C13_Witness ==
    /\ sess["s1"].phase # "idle"
    /\ sess["s1"].pc = "z1"
    /\ \E k \in DOMAIN sess["s1"].wlog :
          sess["s1"].wlog[k].tbl = "patients" /\ sess["s1"].wlog[k].row.id = "p1"
    /\ sess["s1"].pending # <<>>
    /\ last.op = "get_patients_by_postal_code"
    /\ last.arg = "z1"
    /\ last.status = 404
    /\ db.patients = <<>>

\* C14: in every committed state every Observation row's patient_id is the
\* identifier of a stored Patient row; a populate call fetches and stages
\* observations only for entries whose patient it has staged, so it stages
\* no more observations than patients and none for an entry that failed to
\* parse.
C14_ObservationHasStoredPatient ==
    /\ \A k \in DOMAIN db.observations :
          db.observations[k].patient_id \in Ids(db.patients)
    /\ \A s \in Sessions :
          LET r == sess[s]
          IN  /\ r.nObservations <= r.obsFetches
              /\ r.obsFetches <= r.nPatients
              /\ r.nPatients <= Cardinality(ValidEntries(Bundle(r)))
              /\ \A k \in DOMAIN r.pending :
                    r.pending[k].tbl = "observations"
                    => r.pending[k].row.patient_id \in Ids(View(db, r).patients)

\* a call over <<entry without identifier, p1>> answered 200; the one stored
\* observation belongs to p1, and the malformed entry left no row
C14_Witness ==
    /\ Finished(sess["s1"])
    /\ sess["s1"].outcome = 200
    /\ Len(Bundle(sess["s1"])) = 2
    /\ Malformed(Bundle(sess["s1"])[1])
    /\ sess["s1"].nPatients = 1 /\ sess["s1"].nObservations = 1
    /\ Len(db.observations) = 1
    /\ db.observations[1].patient_id = "p1"
    /\ Ids(db.patients) = {"p1"}

\* the observation rows the remote answers can give as a first entry
FirstObservations ==
    {parse_observation(f.val["entry"][1]["resource"]) :
        f \in {g \in ObservationFetches :
                  /\ g.ok /\ Truthy(g.val, "entry")
                  /\ "resource" \in DOMAIN g.val["entry"][1]}}

\* the step of session s that stages an observation
StagesObservation(s) == sess'[s].nObservations = sess[s].nObservations + 1

\* the observation staged for the current entry is a first entry of an
\* observation bundle, stamped with the entry's patient identifier
StagedIsFirstEntry(s) ==
    LET pid == Bundle(sess[s])[sess[s].i]["resource"]["id"]
        w == sess'[s].pending[1]
    IN  /\ Len(sess'[s].pending) = 1
        /\ w.tbl = "observations"
        /\ w.row.patient_id = pid
        /\ \E o \in FirstObservations : w.row = stamp_observation(o, pid)

\* C15 as stated: for each patient entry the observation upserted is the
\* first entry of its observation bundle whenever that bundle is non-empty,
\* and none when it is empty, so a call that answered 200 staged one
\* observation per non-empty observation bundle, and N patients and N
\* observations when each of its N valid entries had a non-empty bundle.
C15_FirstObservationPerNonEmptyBundle ==
    /\ [][\A s \in Sessions : StagesObservation(s) => StagedIsFirstEntry(s)]_vars
    /\ [](\A s \in Sessions :
            LET r == sess[s]
            IN  /\ r.nObservations <= r.obsNonEmpty
                /\ r.obsNonEmpty <= r.obsFetches /\ r.obsFetches <= r.nPatients
                /\ (Finished(r) /\ r.outcome = 200)
                   => /\ r.nObservations = r.obsNonEmpty
                      /\ r.nPatients = Cardinality(ValidEntries(Bundle(r))))

\* C15: for each patient entry at most one observation is upserted: the
\* first entry of the patient's observation bundle, stamped with the
\* patient's identifier, when the bundle is non-empty and its first entry
\* carries a resource, and none otherwise; a call that answered 200 staged
\* one patient per valid entry and one observation per such bundle, so N
\* patients and N observations when each of its N valid entries had one.
C15_FirstObservationPerUsableBundle ==
    /\ [][\A s \in Sessions : StagesObservation(s) => StagedIsFirstEntry(s)]_vars
    /\ [](\A s \in Sessions :
            LET r == sess[s]
            IN  /\ r.nObservations <= r.obsUsable
                /\ r.obsUsable <= r.obsNonEmpty
                /\ r.obsNonEmpty <= r.obsFetches /\ r.obsFetches <= r.nPatients
                /\ (Finished(r) /\ r.outcome = 200)
                   => /\ r.nObservations = r.obsUsable
                      /\ r.nPatients = Cardinality(ValidEntries(Bundle(r))))

\* a call over two valid entries answered 200 after both observation
\* fetches returned a bundle: two patient and two observation upserts, and
\* of a two-entry observation bundle only the first entry is stored
C15_Witness ==
    /\ Finished(sess["s1"])
    /\ sess["s1"].outcome = 200
    /\ ValidEntries(Bundle(sess["s1"])) = {1, 2}
    /\ sess["s1"].obsUsable = 2
    /\ sess["s1"].nPatients = 2 /\ sess["s1"].nObservations = 2
    /\ Len(db.observations) = 1
    /\ db.observations[1].id = "o1" /\ db.observations[1].status = "amended"

(***************************************************************************)
(* SpecStartup: the start of the service against a storage engine that     *)
(* becomes ready at any attempt or never, and the health check once the    *)
(* service serves.                                                         *)
(***************************************************************************)
max_retries == 5

retry_interval == 5

\* wait_for_db(max_retries=5, retry_interval=5): defined in app/main.py and
\* called from nowhere
wait_for_db(script) ==
    LET n == IF Len(script) < max_retries THEN Len(script) ELSE max_retries
        k == IF \E j \in 1..n : script[j]
             THEN CHOOSE j \in 1..n : script[j] /\ \A m \in 1..(j - 1) : ~script[m]
             ELSE n
    IN  [phase |-> IF script[k] THEN "serving" ELSE "failed",
         script |-> script, attempts |-> k,
         waits |-> [j \in 1..(k - 1) |-> retry_interval]]

\* lifespan: the startup FastAPI runs.  One create_all; an error is printed
\* and raised again, which ends the process.
lifespan(script) ==
    [phase |-> IF script[1] THEN "serving" ELSE "failed",
     script |-> script, attempts |-> 1, waits |-> <<>>]

\* GET /
health_check == [status |-> 200, body |-> <<"healthy">>]

InitStartup ==
    /\ db = EmptyDb
    /\ sess = [s \in Sessions |-> IdleSession]
    /\ ncalls = 0
    /\ issued = {}
    /\ now = 0
    /\ last = NoResponse
    /\ rc = NoRemoteCall
    /\ \E script \in [1..MaxStartup -> BOOLEAN] :
          boot = [phase |-> "starting", script |-> script, attempts |-> 0,
                  waits |-> <<>>]

Startup ==
    /\ boot.phase = "starting"
    /\ boot' = lifespan(boot.script)
    /\ UNCHANGED <<db, sess, ncalls, issued, now, last, rc>>

HealthCheck ==
    /\ boot.phase = "serving"
    /\ last' = [op |-> "health_check", arg |-> NULL,
                status |-> health_check.status, body |-> health_check.body]
    /\ UNCHANGED <<db, sess, ncalls, issued, now, rc, boot>>

NextStartup == Startup \/ HealthCheck

SpecStartup == InitStartup /\ [][NextStartup]_vars

\* the first of the first five attempts that finds the engine ready, 0 when
\* none does
FirstReady(script) ==
    IF \E j \in 1..max_retries : script[j]
    THEN CHOOSE j \in 1..max_retries :
            script[j] /\ \A m \in 1..(j - 1) : ~script[m]
    ELSE 0

\* C16: at startup the service tries to create the tables up to 5 times,
\* waiting a fixed delay after each attempt that finds the storage engine
\* not ready: it serves as soon as one attempt succeeds, and fails, never
\* serving a request, only after the fifth failure in a row.
C16_StartupRetries ==
    /\ boot.phase # "starting"
       => LET k == FirstReady(boot.script)
          IN  IF k = 0
              THEN /\ boot.phase = "failed"
                   /\ boot.attempts = max_retries
              ELSE /\ boot.phase = "serving"
                   /\ boot.attempts = k
                   /\ boot.waits = [j \in 1..(k - 1) |-> retry_interval]
    /\ last.op = "health_check" => boot.phase = "serving"

====
